---- MODULE Spec2Model ----
(***************************************************************************)
(* Model of the voice note plugin: VoiceNoteService (the recording /       *)
(* processing state machine and its two-stage pipeline) driven by the      *)
(* ribbon icon, the command and onunload of VoiceNotePlugin.               *)
(*                                                                         *)
(* Every call of toggleRecording / stopIfRecording is an async function    *)
(* invocation with its own position (pc) and locals.  One action is one    *)
(* JavaScript task together with the microtasks it runs: the synchronous   *)
(* prefix of a call up to its first real suspension, or the continuation   *)
(* that runs when a browser promise or event settles.                      *)
(***************************************************************************)
EXTENDS Integers, Sequences, FiniteSets, TLC

\* ---------------------------------------------------------------- bounds
MaxToggles == 3        \* calls of toggleRecording in one run
MaxPad == 1            \* spaces put before and after a note model identifier

\* The toggleRecording calls and the one stopIfRecording call of onunload.
CallIds == 1..(MaxToggles + 1)
\* A recorder is named by the call whose startRecording created it.
RecorderIds == CallIds
NoRecorder == 0
\* The size of the blob a dataavailable event carries: the listener only
\* tests size > 0, so an empty and a non-empty blob are the two cases.
ChunkSizes == {0, 1}

\* ------------------------------------------------------------ texts
\* Strings the code manipulates are sequences of characters.
SP == " "
Undefined == "undefined"
Trim(s) ==
    LET RECURSIVE L(_), R(_)
        L(t) == IF t # <<>> /\ Head(t) = SP THEN L(Tail(t)) ELSE t
        R(t) == IF t # <<>> /\ t[Len(t)] = SP THEN R(SubSeq(t, 1, Len(t) - 1)) ELSE t
    IN  R(L(s))

\* Bodies of the remote responses: the "text" field of the transcription
\* response, the first choice's content of the completion response.
ResponseTexts == {Undefined, <<>>, <<SP>>, <<SP, "a", SP>>}
Responses == [ok : {TRUE}, text : ResponseTexts] \cup [ok : {FALSE}, text : {<<"e">>}]

\* ------------------------------------------------------------ notices
NoticeAlreadyProcessing == "Already processing the previous recording."
NoticeNoMicrophone == "Microphone access is not available."
NoticeRecordingStarted == "Recording started."
NoticeInserted == "Voice note inserted."
ErrNoApiKey == "Add your OpenAI API key in settings."
ErrNoTranscriptionModel == "Set a transcription model in settings."
ErrNoNoteModel == "Set a note creation model in settings."
ErrTranscriptionFailed == "Transcription failed: e"
ErrNoText == "Transcription returned no text."
ErrNoteFailed == "Note creation failed: e"
ErrNoContent == "Note creation returned no content."
ErrNoView == "Open a note to insert the transcript."
NoError == ""

\* ------------------------------------------------------------ settings
\* Note model identifiers are sequences of characters: supportsTemperature
\* trims and lower-cases them.
GPT4oMini == <<"g", "p", "t", "-", "4", "o", "-", "m", "i", "n", "i">>
GPT5Mini == <<"g", "p", "t", "-", "5", "-", "m", "i", "n", "i">>

\* String.prototype.toLowerCase on the letters that occur in the identifiers.
LowerChar(ch) ==
    CASE ch = "G" -> "g" [] ch = "P" -> "p" [] ch = "T" -> "t"
      [] ch = "M" -> "m" [] ch = "I" -> "i" [] ch = "N" -> "n"
      [] ch = "O" -> "o" [] OTHER -> ch
ToLowerCase(s) == [i \in 1..Len(s) |-> LowerChar(s[i])]

DEFAULT_SETTINGS == [apiKey |-> "", transcriptionModel |-> "whisper-1", noteModel |-> GPT4oMini]
\* The values the settings tab may hold after an edit.
SettingsValues ==
    { DEFAULT_SETTINGS,
      [DEFAULT_SETTINGS EXCEPT !.apiKey = "sk-1"],
      [DEFAULT_SETTINGS EXCEPT !.apiKey = "sk-1", !.transcriptionModel = ""],
      [DEFAULT_SETTINGS EXCEPT !.apiKey = "sk-1", !.noteModel = <<>>] }

VARIABLES
    state,          \* VoiceNoteService.state
    mediaRecorder,  \* VoiceNoteService.mediaRecorder (NoRecorder = null)
    chunks,         \* VoiceNoteService.chunks: each chunk is named by its recorder
    ribbon,         \* the state last delivered to onStateChange (the ribbon icon)
    settings,       \* VoiceNotePlugin.settings
    hasView,        \* whether workspace.getActiveViewOfType(MarkdownView) is non-null
    hasMediaDevices,\* whether navigator.mediaDevices.getUserMedia exists
    unloaded,       \* onunload has been called (ribbon icon and command removed)
    nextCall,       \* the id the next call gets
    kind,           \* per call: which entry point it is
    pc,             \* per call: where the async function is suspended
    rec,            \* per call: stopRecording's local `recorder`
    reqs,           \* per call: the remote requests it has sent
    notices,        \* per call: the notices it has shown
    inserted,       \* per call: the texts it passed to editor.replaceSelection
    rstate,         \* per recorder: MediaRecorder.state ("none" before creation)
    live,           \* per recorder: its stream has a track that is not stopped
    stopTask        \* per recorder: stop() has queued its dataavailable/stop task

vars == <<state, mediaRecorder, chunks, ribbon, settings, hasView, hasMediaDevices,
          unloaded, nextCall, kind, pc, rec, reqs, notices, inserted,
          rstate, live, stopTask>>

svc == <<state, mediaRecorder, chunks, ribbon>>
env == <<settings, hasView, hasMediaDevices>>
media == <<rstate, live, stopTask>>

Init ==
    /\ state = "idle"
    /\ mediaRecorder = NoRecorder
    /\ chunks = <<>>
    /\ ribbon = "idle"
    /\ settings \in SettingsValues
    /\ hasView \in BOOLEAN
    /\ hasMediaDevices \in BOOLEAN
    /\ unloaded = FALSE
    /\ nextCall = 1
    /\ kind = [c \in CallIds |-> "none"]
    /\ pc = [c \in CallIds |-> "unused"]
    /\ rec = [c \in CallIds |-> NoRecorder]
    /\ reqs = [c \in CallIds |-> <<>>]
    /\ notices = [c \in CallIds |-> <<>>]
    /\ inserted = [c \in CallIds |-> <<>>]
    /\ rstate = [r \in RecorderIds |-> "none"]
    /\ live = [r \in RecorderIds |-> FALSE]
    /\ stopTask = [r \in RecorderIds |-> FALSE]

\* ------------------------------------------------------------ helpers
\* The number of toggleRecording calls made so far.
Toggles == Cardinality({c \in CallIds : kind[c] = "toggle"})

\* setState without the call of the listener.
SetStateNoCallback(s) ==
    /\ state' = s
    /\ ribbon' = ribbon

\* setState: assign and call the listener synchronously.
SetState(s) ==
    /\ state' = s
    /\ ribbon' = s

Notify(c, msg) == notices' = [notices EXCEPT ![c] = Append(@, msg)]

\* Finally with `this.chunks = []` left out.
FinallyKeepsChunks(c, msg) ==
    /\ Notify(c, msg)
    /\ chunks' = chunks
    /\ SetState("idle")
    /\ pc' = [pc EXCEPT ![c] = "done"]
    /\ rec' = [rec EXCEPT ![c] = NoRecorder]

\* The finally block of stopRecording, after the notice of the try or the catch.
Finally(c, msg) ==
    /\ Notify(c, msg)
    /\ chunks' = <<>>
    /\ SetState("idle")
    /\ pc' = [pc EXCEPT ![c] = "done"]
    /\ rec' = [rec EXCEPT ![c] = NoRecorder]

\* transcribeAudio up to its fetch: the error it throws, or NoError.
TranscribeConfigError(s) ==
    IF s.apiKey = "" THEN ErrNoApiKey
    ELSE IF s.transcriptionModel = "" THEN ErrNoTranscriptionModel
    ELSE NoError

\* transcribeAudio after its fetch: the error it throws, or NoError.
TranscribeResponseError(resp) ==
    IF ~resp.ok THEN ErrTranscriptionFailed
    ELSE IF resp.text = Undefined \/ Trim(resp.text) = <<>> THEN ErrNoText
    ELSE NoError

\* generateNote up to its fetch.
NoteConfigError(s) ==
    IF s.apiKey = "" THEN ErrNoApiKey
    ELSE IF s.noteModel = <<>> THEN ErrNoNoteModel
    ELSE NoError

\* generateNote after its fetch: `!content` is tested before the trim.
NoteResponseError(resp) ==
    IF ~resp.ok THEN ErrNoteFailed
    ELSE IF resp.text = Undefined \/ resp.text = <<>> THEN ErrNoContent
    ELSE NoError

\* supportsTemperature with toLowerCase left out.
supportsTemperatureCaseSensitive(model) == Trim(model) # GPT5Mini

\* supportsTemperature: normalized = model.trim().toLowerCase().
supportsTemperature(model) == ToLowerCase(Trim(model)) # GPT5Mini

\* The temperature field of a request body.
Temperature02 == "0.2"
NoTemperature == "absent"

TranscribeRequest(s, blob) ==
    [stage |-> "A", key |-> s.apiKey, model |-> s.transcriptionModel, body |-> blob,
     temperature |-> NoTemperature]

NoteRequest(s, transcript) ==
    [stage |-> "B", key |-> s.apiKey, model |-> s.noteModel, body |-> transcript,
     temperature |-> IF supportsTemperature(s.noteModel) THEN Temperature02 ELSE NoTemperature]

\* ------------------------------------------------------------ calls
\* startRecording up to `await getUserMedia`.
StartRecording(c) ==
    IF ~hasMediaDevices
    THEN /\ Notify(c, NoticeNoMicrophone)
         /\ pc' = [pc EXCEPT ![c] = "done"]
         /\ UNCHANGED <<svc, rec, media>>
    ELSE /\ pc' = [pc EXCEPT ![c] = "awaitDevice"]
         /\ UNCHANGED <<svc, rec, media, notices>>

\* stopRecording up to `await new Promise(...)`: recorder.stop() on an
\* inactive recorder returns without queueing anything.
StopRecording(c) ==
    IF mediaRecorder = NoRecorder
    THEN /\ pc' = [pc EXCEPT ![c] = "done"]
         /\ UNCHANGED <<svc, rec, media, notices>>
    ELSE /\ SetState("processing")
         /\ mediaRecorder' = NoRecorder
         /\ rec' = [rec EXCEPT ![c] = mediaRecorder]
         /\ pc' = [pc EXCEPT ![c] = "awaitStop"]
         /\ IF rstate[mediaRecorder] = "recording"
            THEN /\ rstate' = [rstate EXCEPT ![mediaRecorder] = "inactive"]
                 /\ stopTask' = [stopTask EXCEPT ![mediaRecorder] = TRUE]
            ELSE UNCHANGED <<rstate, stopTask>>
         /\ UNCHANGED <<chunks, live, notices>>

\* toggleRecording with the "processing" branch left out.
ToggleRecordingNoProcessingCheck(c) ==
    /\ ~unloaded
    /\ Toggles < MaxToggles
    /\ c = nextCall
    /\ nextCall' = c + 1
    /\ kind' = [kind EXCEPT ![c] = "toggle"]
    /\ IF state = "recording" THEN StopRecording(c) ELSE StartRecording(c)
    /\ UNCHANGED <<env, unloaded, reqs, inserted>>

\* toggleRecording, called from the ribbon icon or the command.
ToggleRecording(c) ==
    /\ ~unloaded
    /\ Toggles < MaxToggles
    /\ c = nextCall
    /\ nextCall' = c + 1
    /\ kind' = [kind EXCEPT ![c] = "toggle"]
    /\ IF state = "recording" THEN StopRecording(c)
       ELSE IF state = "processing"
       THEN /\ Notify(c, NoticeAlreadyProcessing)
            /\ pc' = [pc EXCEPT ![c] = "done"]
            /\ UNCHANGED <<svc, rec, media>>
       ELSE StartRecording(c)
    /\ UNCHANGED <<env, unloaded, reqs, inserted>>

\* stopIfRecording with its test negated.
StopIfRecordingInverted(c) ==
    IF state # "recording" THEN StopRecording(c)
    ELSE /\ pc' = [pc EXCEPT ![c] = "done"]
         /\ UNCHANGED <<svc, rec, media, notices>>

\* stopIfRecording.
StopIfRecording(c) ==
    IF state = "recording" THEN StopRecording(c)
    ELSE /\ pc' = [pc EXCEPT ![c] = "done"]
         /\ UNCHANGED <<svc, rec, media, notices>>

\* onunload: the host then removes the ribbon icon and the command.
Onunload(c) ==
    /\ ~unloaded
    /\ c = nextCall
    /\ nextCall' = c + 1
    /\ unloaded' = TRUE
    /\ kind' = [kind EXCEPT ![c] = "stopIfRecording"]
    /\ StopIfRecording(c)
    /\ UNCHANGED <<env, reqs, inserted>>

\* ------------------------------------------------------------ continuations
\* getUserMedia resolves: the rest of startRecording.
DeviceGranted(c) ==
    /\ pc[c] = "awaitDevice"
    /\ rstate' = [rstate EXCEPT ![c] = "recording"]
    /\ live' = [live EXCEPT ![c] = TRUE]
    /\ mediaRecorder' = c
    /\ chunks' = <<>>
    /\ SetState("recording")
    /\ Notify(c, NoticeRecordingStarted)
    /\ pc' = [pc EXCEPT ![c] = "done"]
    /\ UNCHANGED <<env, unloaded, nextCall, kind, rec, reqs, inserted, stopTask>>

\* getUserMedia rejects: startRecording and toggleRecording reject.
DeviceDenied(c) ==
    /\ pc[c] = "awaitDevice"
    /\ pc' = [pc EXCEPT ![c] = "rejected"]
    /\ UNCHANGED <<svc, env, unloaded, nextCall, kind, rec, reqs, notices, inserted, media>>

\* The chunks after the dataavailable listener ran for a blob of `size`.
OnDataAvailable(r, size) == IF size > 0 THEN Append(chunks, r) ELSE chunks

\* All tracks of a recording stream end (device unplugged, permission
\* revoked): the browser inactivates the recorder and fires dataavailable
\* and stop.  No call is waiting for this stop event.
TracksEnded(r, size) ==
    /\ rstate[r] = "recording"
    /\ rstate' = [rstate EXCEPT ![r] = "inactive"]
    /\ chunks' = OnDataAvailable(r, size)
    /\ live' = [live EXCEPT ![r] = FALSE]
    /\ UNCHANGED <<state, mediaRecorder, ribbon, env, unloaded, nextCall, kind, pc, rec,
                   reqs, notices, inserted, stopTask>>

\* RecorderStopped with an empty blob refused before transcribeAudio.
RecorderStoppedRefusesEmpty(c, size) ==
    /\ pc[c] = "awaitStop"
    /\ stopTask[rec[c]]
    /\ stopTask' = [stopTask EXCEPT ![rec[c]] = FALSE]
    /\ live' = [live EXCEPT ![rec[c]] = FALSE]
    /\ LET blob == OnDataAvailable(rec[c], size)
           err == TranscribeConfigError(settings)
       IN  IF blob = <<>> \/ err # NoError
           THEN /\ Finally(c, IF blob = <<>> THEN "No audio was recorded." ELSE err)
                /\ UNCHANGED <<mediaRecorder, reqs>>
           ELSE /\ chunks' = blob
                /\ reqs' = [reqs EXCEPT ![c] = Append(@, TranscribeRequest(settings, blob))]
                /\ pc' = [pc EXCEPT ![c] = "awaitTranscribe"]
                /\ UNCHANGED <<state, mediaRecorder, ribbon, rec, notices>>
    /\ UNCHANGED <<env, unloaded, nextCall, kind, inserted, rstate>>

\* The task queued by recorder.stop(): dataavailable, then stop.  The stop
\* listeners run in the order they were added: startRecording's stops the
\* tracks, stopRecording's builds the blob and resumes call c, which runs
\* transcribeAudio up to its fetch.
RecorderStopped(c, size) ==
    /\ pc[c] = "awaitStop"
    /\ stopTask[rec[c]]
    /\ stopTask' = [stopTask EXCEPT ![rec[c]] = FALSE]
    /\ live' = [live EXCEPT ![rec[c]] = FALSE]
    /\ LET blob == OnDataAvailable(rec[c], size)
           err == TranscribeConfigError(settings)
       IN  IF err # NoError
           THEN /\ Finally(c, err)
                /\ UNCHANGED <<mediaRecorder, reqs>>
           ELSE /\ chunks' = blob
                /\ reqs' = [reqs EXCEPT ![c] = Append(@, TranscribeRequest(settings, blob))]
                /\ pc' = [pc EXCEPT ![c] = "awaitTranscribe"]
                /\ UNCHANGED <<state, mediaRecorder, ribbon, rec, notices>>
    /\ UNCHANGED <<env, unloaded, nextCall, kind, inserted, rstate>>

\* The transcription response arrives: the rest of transcribeAudio, then
\* generateNote up to its fetch.
TranscribeResponse(c, resp) ==
    /\ pc[c] = "awaitTranscribe"
    /\ LET err == TranscribeResponseError(resp)
           cfg == NoteConfigError(settings)
       IN  IF err # NoError
           THEN /\ Finally(c, err)
                /\ UNCHANGED <<mediaRecorder, reqs>>
           ELSE IF cfg # NoError
           THEN /\ Finally(c, cfg)
                /\ UNCHANGED <<mediaRecorder, reqs>>
           ELSE /\ reqs' = [reqs EXCEPT ![c] = Append(@, NoteRequest(settings, Trim(resp.text)))]
                /\ pc' = [pc EXCEPT ![c] = "awaitNote"]
                /\ UNCHANGED <<svc, rec, notices>>
    /\ UNCHANGED <<env, unloaded, nextCall, kind, inserted, media>>

\* NoteResponse with insertNote's test of the view left out.
NoteResponseNoViewCheck(c, resp) ==
    /\ pc[c] = "awaitNote"
    /\ LET err == NoteResponseError(resp)
       IN  IF err # NoError
           THEN /\ Finally(c, err)
                /\ UNCHANGED inserted
           ELSE /\ inserted' = [inserted EXCEPT ![c] = Append(@, Trim(resp.text) \o <<"\n">>)]
                /\ Finally(c, NoticeInserted)
    /\ UNCHANGED <<mediaRecorder, env, unloaded, nextCall, kind, reqs, media>>

\* NoteResponse with the insertion made before the response is checked.
NoteResponseInsertsBeforeCheck(c, resp) ==
    /\ pc[c] = "awaitNote"
    /\ LET err == NoteResponseError(resp)
       IN  IF ~hasView
           THEN /\ Finally(c, ErrNoView)
                /\ UNCHANGED inserted
           ELSE /\ inserted' = [inserted EXCEPT ![c] = Append(@, <<"\n">>)]
                /\ Finally(c, IF err # NoError THEN err ELSE NoticeInserted)
    /\ UNCHANGED <<mediaRecorder, env, unloaded, nextCall, kind, reqs, media>>

\* The completion response arrives: the rest of generateNote, insertNote,
\* the success notice, and the finally block.
NoteResponse(c, resp) ==
    /\ pc[c] = "awaitNote"
    /\ LET err == NoteResponseError(resp)
       IN  IF err # NoError
           THEN /\ Finally(c, err)
                /\ UNCHANGED inserted
           ELSE IF ~hasView
           THEN /\ Finally(c, ErrNoView)
                /\ UNCHANGED inserted
           ELSE /\ inserted' = [inserted EXCEPT ![c] = Append(@, Trim(resp.text) \o <<"\n">>)]
                /\ Finally(c, NoticeInserted)
    /\ UNCHANGED <<mediaRecorder, env, unloaded, nextCall, kind, reqs, media>>

\* ------------------------------------------------------------ environment
\* The user edits a field of the settings tab.
EditSettings(s) ==
    /\ s # settings
    /\ settings' = s
    /\ UNCHANGED <<svc, hasView, hasMediaDevices, unloaded, nextCall, kind, pc, rec, reqs,
                   notices, inserted, media>>

\* The user opens or leaves a Markdown view.
ViewChanged ==
    /\ hasView' = ~hasView
    /\ UNCHANGED <<svc, settings, hasMediaDevices, unloaded, nextCall, kind, pc, rec, reqs,
                   notices, inserted, media>>

Next ==
    \/ \E c \in CallIds : ToggleRecording(c)
    \/ \E c \in CallIds : Onunload(c)
    \/ \E c \in CallIds : DeviceGranted(c)
    \/ \E c \in CallIds : DeviceDenied(c)
    \/ \E r \in RecorderIds, size \in ChunkSizes : TracksEnded(r, size)
    \/ \E c \in CallIds, size \in ChunkSizes : RecorderStopped(c, size)
    \/ \E c \in CallIds, resp \in Responses : TranscribeResponse(c, resp)
    \/ \E c \in CallIds, resp \in Responses : NoteResponse(c, resp)
    \/ \E s \in SettingsValues : EditSettings(s)
    \/ ViewChanged

Spec == Init /\ [][Next]_vars

\* Every settling step is taken eventually: the recorder's queued stop task
\* runs and each remote call settles.  The number of calls is bounded and
\* each of these steps moves one call forward, so weak fairness of their
\* disjunction is weak fairness of each.
Settling ==
    \/ \E c \in CallIds, size \in ChunkSizes : RecorderStopped(c, size)
    \/ \E c \in CallIds, resp \in Responses : TranscribeResponse(c, resp)
    \/ \E c \in CallIds, resp \in Responses : NoteResponse(c, resp)

FairSpec == Init /\ [][Next]_vars /\ WF_vars(Settling)

\* ------------------------------------------------------------ properties
\* A pipeline attempt: stopRecording between setState("processing") and finally.
InFlight(c) == pc[c] \in {"awaitStop", "awaitTranscribe", "awaitNote"}

TransitionTable ==
    { <<"idle", "recording">>, <<"recording", "processing">>, <<"processing", "idle">> }

\* C1: the only changes of state are Idle->Recording, Recording->Processing
\* and Processing->Idle.
C1_OnlyTableTransitions ==
    [][state' # state => <<state, state'>> \in TransitionTable]_vars

\* C2: at most one pipeline attempt is in flight at any time.
C2_AtMostOnePipeline ==
    Cardinality({c \in CallIds : InFlight(c)}) <= 1

\* C3: the state is Recording if and only if a live microphone stream exists.
C3_RecordingIffHandle ==
    (state = "recording") <=> (\E r \in RecorderIds : live[r])

\* C4: at most one stream is live, and every recorder that is recording is
\* the one the session references.
C4_AtMostOneHandle ==
    /\ Cardinality({r \in RecorderIds : live[r]}) <= 1
    /\ \A r \in RecorderIds : rstate[r] = "recording" => mediaRecorder = r

\* C5: the step that completes a pipeline attempt, with whatever outcome,
\* leaves the state Idle and the audio buffer empty.
C5_SettleClears ==
    [][\A c \in CallIds :
          (InFlight(c) /\ pc'[c] = "done") => (state' = "idle" /\ chunks' = <<>>)]_vars

\* C5 witness: one attempt has ended with the success notice and another
\* with a delivery failure, and the session is Idle with an empty buffer.
C5_Witness ==
    /\ \E c \in CallIds : notices[c] = <<NoticeInserted>>
    /\ \E c \in CallIds : notices[c] = <<ErrNoView>>
    /\ state = "idle"
    /\ chunks = <<>>

\* C6: once the state is Processing it eventually is Idle again.
C6_ProcessingLeadsToIdle ==
    (state = "processing") ~> (state = "idle")

\* C7: a toggleRecording call made while Processing only shows the
\* still-processing notice: state, recorder reference, buffer, recorders and
\* every other call are as before, and no request is sent.
C7_ToggleWhileProcessingIsNoop ==
    [][(state = "processing" /\ nextCall' # nextCall /\ kind'[nextCall] = "toggle") =>
          /\ UNCHANGED <<state, mediaRecorder, chunks, ribbon, rec, reqs, inserted, media>>
          /\ pc' = [pc EXCEPT ![nextCall] = "done"]
          /\ notices' = [notices EXCEPT ![nextCall] = <<NoticeAlreadyProcessing>>]]_vars

\* C7 witness: a toggle has returned with the still-processing notice while
\* the attempt it met is still in flight.
C7_Witness ==
    \E c, d \in CallIds :
        /\ kind[c] = "toggle" /\ pc[c] = "done"
        /\ notices[c] = <<NoticeAlreadyProcessing>>
        /\ InFlight(d)
        /\ state = "processing"

\* C8: stopIfRecording takes Recording->Processing when the state is
\* Recording; in Idle and in Processing it returns at once and changes
\* nothing: no state change, no request, every call in flight where it was.
C8_StopIfRecordingOnlyWhenRecording ==
    [][(nextCall' # nextCall /\ kind'[nextCall] = "stopIfRecording") =>
          IF state = "recording"
          THEN /\ state' = "processing"
               /\ pc' = [pc EXCEPT ![nextCall] = "awaitStop"]
               /\ rec'[nextCall] = mediaRecorder
          ELSE /\ UNCHANGED <<state, mediaRecorder, chunks, ribbon, rec, reqs, notices,
                              inserted, media>>
               /\ pc' = [pc EXCEPT ![nextCall] = "done"]]_vars

\* C8 witness: stopIfRecording has returned while another call's attempt is
\* still in flight in Processing.
C8_Witness ==
    \E c, d \in CallIds :
        /\ kind[c] = "stopIfRecording" /\ pc[c] = "done"
        /\ pc[d] \in {"awaitTranscribe", "awaitNote"}
        /\ state = "processing"

\* C9: once onunload's stopIfRecording has settled no microphone stream is live.
C9_NoLiveStreamAfterTeardown ==
    (\E c \in CallIds : kind[c] = "stopIfRecording" /\ pc[c] = "done")
        => \A r \in RecorderIds : ~live[r]

\* C10: the step in which a toggle made in Idle fails to acquire the capture
\* handle (no capture API, or getUserMedia rejects) leaves state, recorder
\* and buffer as they were and shows one notice.
C10_AcquisitionFailureNotified ==
    [][\A c \in CallIds :
          (\/ (pc[c] = "awaitDevice" /\ pc'[c] = "rejected")
           \/ (pc[c] = "unused" /\ kind'[c] = "toggle" /\ state = "idle" /\ pc'[c] = "done"))
          => /\ UNCHANGED <<state, mediaRecorder, chunks, rstate>>
             /\ Len(notices'[c]) = Len(notices[c]) + 1]_vars

\* The stages of the requests a call has sent, in the order it sent them.
Stages(c) == [i \in 1..Len(reqs[c]) |-> reqs[c][i].stage]

\* C11: within one attempt the stages run in the order transcription,
\* composition, delivery, each only after the one before succeeded: the
\* requests of a call are a prefix of <<A, B>>, nothing is inserted before
\* both were sent and the attempt ended with the success notice, an attempt
\* whose transcription failed sent no composition request and inserted
\* nothing, and one whose composition failed inserted nothing.
C11_StagesInOrder ==
    \A c \in CallIds :
        /\ Stages(c) \in {<<>>, <<"A">>, <<"A", "B">>}
        /\ pc[c] = "awaitTranscribe" => Stages(c) = <<"A">>
        /\ pc[c] = "awaitNote" => Stages(c) = <<"A", "B">>
        /\ inserted[c] # <<>> =>
              /\ Stages(c) = <<"A", "B">>
              /\ Len(inserted[c]) = 1
              /\ notices[c] = <<NoticeInserted>>
        /\ notices[c] \in {<<ErrTranscriptionFailed>>, <<ErrNoText>>} =>
              /\ Stages(c) = <<"A">>
              /\ inserted[c] = <<>>
        /\ notices[c] \in {<<ErrNoteFailed>>, <<ErrNoContent>>} =>
              /\ Stages(c) = <<"A", "B">>
              /\ inserted[c] = <<>>

\* C11 witness: one attempt ended at a failed transcription, one at a failed
\* composition, each with the requests and no insertion as claimed.
C11_Witness ==
    /\ \E c \in CallIds :
          notices[c] = <<ErrTranscriptionFailed>> /\ Stages(c) = <<"A">> /\ inserted[c] = <<>>
    /\ \E c \in CallIds :
          notices[c] = <<ErrNoteFailed>> /\ Stages(c) = <<"A", "B">> /\ inserted[c] = <<>>

\* C12: no call of toggleRecording or stopIfRecording is ever rejected, no
\* call shows more than one notice, and every toggle that returned showed
\* exactly one (the start notice, the still-processing notice, the success
\* notice or the one error notice).
C12_ErrorsBecomeOneNotice ==
    \A c \in CallIds :
        /\ pc[c] # "rejected"
        /\ Len(notices[c]) <= 1
        /\ (kind[c] = "toggle" /\ pc[c] = "done") => Len(notices[c]) = 1

\* C13: the state last delivered to the listener is the session's state.
C13_ListenerSeesState ==
    ribbon = state

\* C13 witness: the listener has been told of Processing while an attempt
\* is in flight.
C13_Witness ==
    /\ state = "processing"
    /\ ribbon = "processing"
    /\ \E c \in CallIds : pc[c] = "awaitNote"

\* The settings tab with a second credential to change to.
KeySettingsValues ==
    SettingsValues \cup { [DEFAULT_SETTINGS EXCEPT !.apiKey = "sk-2"] }

NextKeys ==
    \/ Next
    \/ \E s \in KeySettingsValues \ SettingsValues : EditSettings(s)

SpecKeys == Init /\ [][NextKeys]_vars

\* C14: the requests of one stop-and-process cycle all carry the credential
\* read at the start of the cycle.
C14_OneConfigPerCycle ==
    \A c \in CallIds :
        \A i, j \in 1..Len(reqs[c]) : reqs[c][i].key = reqs[c][j].key

\* ------------------------------------------------------------ note models
\* supportsTemperature on many identifiers: the note model is any of
\* ModelIds, and the calls run the pipeline up to the composition request
\* and its delivery, in a session with a credential and an open note.
Pad(n) == [i \in 1..n |-> SP]

BaseModelIds ==
    { GPT5Mini,
      <<"G", "P", "T", "-", "5", "-", "M", "I", "N", "I">>,
      <<"G", "p", "t", "-", "5", "-", "M", "i", "n", "i">>,
      GPT4oMini,
      <<"g", "p", "t", "-", "5">>,
      GPT5Mini \o <<"-", "x">>,
      <<"g", "p", "t", "-", "5", SP, "m", "i", "n", "i">>,
      <<>> }

ModelIds == { Pad(l) \o b \o Pad(r) : l \in 0..MaxPad, r \in 0..MaxPad, b \in BaseModelIds }

InitModels ==
    /\ state = "idle"
    /\ mediaRecorder = NoRecorder
    /\ chunks = <<>>
    /\ ribbon = "idle"
    /\ settings \in { [apiKey |-> "sk-1", transcriptionModel |-> "whisper-1", noteModel |-> m] :
                        m \in ModelIds }
    /\ hasView = TRUE
    /\ hasMediaDevices = TRUE
    /\ unloaded = FALSE
    /\ nextCall = 1
    /\ kind = [c \in CallIds |-> "none"]
    /\ pc = [c \in CallIds |-> "unused"]
    /\ rec = [c \in CallIds |-> NoRecorder]
    /\ reqs = [c \in CallIds |-> <<>>]
    /\ notices = [c \in CallIds |-> <<>>]
    /\ inserted = [c \in CallIds |-> <<>>]
    /\ rstate = [r \in RecorderIds |-> "none"]
    /\ live = [r \in RecorderIds |-> FALSE]
    /\ stopTask = [r \in RecorderIds |-> FALSE]

NextModels ==
    \/ \E c \in CallIds : ToggleRecording(c)
    \/ \E c \in CallIds : DeviceGranted(c)
    \/ \E c \in CallIds, size \in ChunkSizes : RecorderStopped(c, size)
    \/ \E c \in CallIds, resp \in Responses : TranscribeResponse(c, resp)
    \/ \E c \in CallIds, resp \in Responses : NoteResponse(c, resp)

SpecModels == InitModels /\ [][NextModels]_vars

\* The composition requests sent so far.
NoteRequests ==
    UNION { { reqs[c][i] : i \in { j \in 1..Len(reqs[c]) : reqs[c][j].stage = "B" } } :
            c \in CallIds }

\* C15 as claimed: the composition request omits the temperature exactly
\* when the identifier, lower-cased and otherwise untouched, is gpt-5-mini,
\* and carries 0.2 for every other identifier.
C15_OmittedOnExactMatch ==
    \A r \in NoteRequests :
        /\ r.temperature \in {NoTemperature, Temperature02}
        /\ r.temperature = NoTemperature <=> ToLowerCase(r.model) = GPT5Mini

\* C15 amended: the composition request omits the temperature exactly when
\* the identifier, with surrounding white space removed and lower-cased, is
\* gpt-5-mini, and carries 0.2 for every other identifier.
C15_OmittedOnTrimmedMatch ==
    \A r \in NoteRequests :
        /\ r.temperature \in {NoTemperature, Temperature02}
        /\ r.temperature = NoTemperature <=> ToLowerCase(Trim(r.model)) = GPT5Mini

\* C15 witness: a request without temperature has been sent for an
\* identifier that is gpt-5-mini only after trimming and lower-casing.
C15_Witness ==
    \E r \in NoteRequests :
        /\ r.temperature = NoTemperature
        /\ Trim(r.model) # r.model
        /\ ToLowerCase(r.model) # r.model

\* ------------------------------------------------------------ payload, delivery
\* C16: every text handed to the editor is a non-empty note followed by the
\* one line break.
C16_InsertedNoteNonEmpty ==
    \A c \in CallIds :
        \A i \in 1..Len(inserted[c]) : inserted[c][i] # <<"\n">>

\* C17: the payload of an attempt in flight holds chunks of the attempt's
\* own recorder only, and that recorder delivers one blob.
C17_PayloadIsOwnChunks ==
    \A c \in CallIds :
        pc[c] \in {"awaitTranscribe", "awaitNote"} =>
            /\ Len(reqs[c][1].body) <= 1
            /\ \A i \in 1..Len(reqs[c][1].body) : reqs[c][1].body[i] = rec[c]

\* C18: whenever the state is Idle the audio buffer is empty.
C18_IdleBufferEmpty ==
    state = "idle" => chunks = <<>>

\* C19: an attempt that reaches delivery with no active Markdown view
\* inserts nothing, shows an error notice and leaves the state Idle; the
\* NoEditableTarget notice comes only after both requests were sent, and an
\* attempt that showed it has inserted nothing, now or later.
C19_NoViewIsTerminal ==
    [][\A c \in CallIds :
          /\ (pc[c] = "awaitNote" /\ pc'[c] # "awaitNote" /\ ~hasView) =>
                /\ inserted'[c] = <<>>
                /\ notices'[c] \in {<<ErrNoView>>, <<ErrNoteFailed>>, <<ErrNoContent>>}
                /\ pc'[c] = "done"
                /\ state' = "idle"
          /\ notices'[c] = <<ErrNoView>> =>
                /\ inserted'[c] = <<>>
                /\ Stages(c)' = <<"A", "B">>
                /\ pc'[c] = "done"]_vars

\* C19 witness: an attempt has ended with the NoEditableTarget notice after
\* both requests, nothing was inserted and the state is Idle.
C19_Witness ==
    \E c \in CallIds :
        /\ notices[c] = <<ErrNoView>>
        /\ Stages(c) = <<"A", "B">>
        /\ inserted[c] = <<>>
        /\ pc[c] = "done"
        /\ state = "idle"

\* C20: a stop in Recording takes Recording->Processing whatever the buffer
\* holds; when the recorder's stop event runs, the attempt enters
\* transcribeAudio with the payload as it is, empty or not: with the
\* configuration present the request is sent with that payload, without it
\* the configuration error ends the attempt; and an attempt whose payload
\* was empty ends in Idle with an empty buffer.
C20_EmptyPayloadReachesStageA ==
    [][\A c \in CallIds :
          /\ (pc[c] = "unused" /\ pc'[c] # "unused" /\ state = "recording") =>
                /\ state' = "processing"
                /\ pc'[c] = "awaitStop"
          /\ (pc[c] = "awaitStop" /\ pc'[c] # "awaitStop") =>
                IF TranscribeConfigError(settings) = NoError
                THEN /\ pc'[c] = "awaitTranscribe"
                     /\ Stages(c)' = <<"A">>
                     /\ reqs'[c][1].body = chunks'
                     /\ state' = state
                ELSE /\ pc'[c] = "done"
                     /\ notices'[c] = <<TranscribeConfigError(settings)>>
                     /\ state' = "idle"
                     /\ chunks' = <<>>
          /\ (pc[c] \in {"awaitTranscribe", "awaitNote"} /\ reqs[c][1].body = <<>>
                /\ pc'[c] = "done") =>
                /\ state' = "idle"
                /\ chunks' = <<>>]_vars

\* C20 witness: an attempt whose request carried an empty payload was
\* answered by Stage A with no text, and the session is Idle with an empty
\* buffer.
C20_Witness ==
    \E c \in CallIds :
        /\ pc[c] = "done"
        /\ Stages(c) = <<"A">>
        /\ reqs[c][1].body = <<>>
        /\ notices[c] = <<ErrNoText>>
        /\ state = "idle"
        /\ chunks = <<>>

====
